---- MODULE Spec2Model ----
(***************************************************************************)
(* StraddleStrategy (pyalgomate/strategies/StraddleStrategy.py): the       *)
(* order-state machine of a four-leg options position.  The strategy's     *)
(* fields are the variables; the driver entry points (strategyLogic,       *)
(* onResampledBars) and the four broker callbacks are the actions.  Each   *)
(* handler is an operator from a record of the fields to the record after  *)
(* the handler has run, so that a handler can be applied twice in a        *)
(* formula.                                                                *)
(***************************************************************************)
EXTENDS Integers, FiniteSets, Sequences, TLC

\* ---------------------------------------------------------------- bounds
\* Legs (Position objects) the broker hands out over a run.
MaxLegs == 4

\* Reference and entry prices run from 1 to MaxClose ticks.
MaxClose == 20

\* Protection percentages run from 0 to MaxPct.
MaxPct == 20

\* ------------------------------------------------------ program constants
maxEntries == 3

\* The counter of enterPositions calls stops one past maxEntries.
CallsCap == maxEntries + 1

\* The None that enterWithMarketProtection returns when the feed has no bar.
None == 0
Legs == 1..MaxLegs

\* pyalgomate.core.State, the values the strategy uses.
LIVE == "LIVE"
PLACING_ORDERS == "PLACING_ORDERS"
ENTERED == "ENTERED"
SQUARING_OFF == "SQUARING_OFF"
EXITED == "EXITED"
Phases == {LIVE, PLACING_ORDERS, ENTERED, SQUARING_OFF, EXITED}

\* Time of day, as the three periods the code compares against:
\* before exitTime, from exitTime to marketEndTime, from marketEndTime on.
BeforeExit == 0
exitTime == 1
marketEndTime == 2

VARIABLES
    state,              \* self.state, the strategy phase
    pendingEntry,       \* self.pendingEntry (may hold None)
    pendingSLToCost,    \* self.pendingSLToCost
    pendingCancelExit,  \* self.pendingCancelExit
    pendingExit,        \* self.pendingExit
    positions,          \* self.positions: the StraddlePosition groups, None included
    entry,              \* per leg: state of the entry order
    exit,               \* per leg: state of the latest exit order
    exitKind,           \* per leg: what the latest exit order is
    exitOrders,         \* per leg: number of exit orders submitted so far
    now,                \* the feed's current time of day (period)
    calls,              \* enterPositions calls since the last reset (CountingSpec)
    error,              \* a callback has raised
    calc                \* the last price or stop-loss computation (PricingSpec)

vars == <<state, pendingEntry, pendingSLToCost, pendingCancelExit, pendingExit,
          positions, entry, exit, exitKind, exitOrders, now, calls, error,
          calc>>

\* The strategy's fields and the legs, as one record.
Cur ==
    [state |-> state, pendingEntry |-> pendingEntry,
     pendingSLToCost |-> pendingSLToCost, pendingCancelExit |-> pendingCancelExit,
     pendingExit |-> pendingExit, positions |-> positions, entry |-> entry,
     exit |-> exit, exitKind |-> exitKind, exitOrders |-> exitOrders,
     calls |-> calls, error |-> error]

\* The same record in the next state.
CurNext ==
    [state |-> state', pendingEntry |-> pendingEntry',
     pendingSLToCost |-> pendingSLToCost', pendingCancelExit |-> pendingCancelExit',
     pendingExit |-> pendingExit', positions |-> positions', entry |-> entry',
     exit |-> exit', exitKind |-> exitKind', exitOrders |-> exitOrders',
     calls |-> calls', error |-> error']

\* The next state holds the fields of record s.
Becomes(s) ==
    /\ state' = s.state
    /\ pendingEntry' = s.pendingEntry
    /\ pendingSLToCost' = s.pendingSLToCost
    /\ pendingCancelExit' = s.pendingCancelExit
    /\ pendingExit' = s.pendingExit
    /\ positions' = s.positions
    /\ entry' = s.entry
    /\ exit' = s.exit
    /\ exitKind' = s.exitKind
    /\ exitOrders' = s.exitOrders
    /\ calls' = s.calls
    /\ error' = s.error


\* ------------------------------------------------------------ Position API
\* The broker-side Position object: the strategy only calls it.

\* position.exitActive(): the latest exit order is still with the broker
\* (a requested cancel that is not yet confirmed leaves it active).
exitActive(s, p) == s.exit[p] \in {"live", "canceling"}

\* position.exitFilled()
exitFilled(s, p) == s.exit[p] = "filled"

\* position.cancelExit(): asks the broker to cancel the active exit order.
cancelExit(s, p) ==
    IF exitActive(s, p) THEN [s EXCEPT !.exit[p] = "canceling"] ELSE s

\* An exit order submitted while the previous one is still active is not
\* something the strategy's code decides: the broker either takes the order
\* (accepted) or refuses it by raising.
Refused(s, p, accepted) == exitActive(s, p) /\ ~accepted

\* position.exitStopLimit / position.exitLimit: a new exit order of `kind`.
submitExit(s, p, kind, accepted) ==
    IF Refused(s, p, accepted)
    THEN [s EXCEPT !.error = TRUE]
    ELSE [s EXCEPT !.exit[p] = "live", !.exitKind[p] = kind,
                   !.exitOrders[p] = @ + 1]

\* getActivePositions(): legs whose entry has filled and that are not exited.
getActivePositions(s) ==
    {p \in Legs : s.entry[p] = "filled" /\ s.exit[p] # "filled"}

\* getClosedPositions(): legs that were exited.
getClosedPositions(s) == {p \in Legs : s.exit[p] = "filled"}

\* isPendingOrdersCompleted(): no entry order is still waiting at the broker.
isPendingOrdersCompleted(s) == \A p \in Legs : s.entry[p] # "submitted"

\* ------------------------------------------------------- StraddlePosition
\* A group: its four legs (None where the submission was skipped); the
\* record with none = TRUE is the None that enterPositions returns when no
\* strike could be resolved.
StraddlePosition(ceHedge, peHedge, ceShort, peShort) ==
    [none |-> FALSE, ceHedge |-> ceHedge, peHedge |-> peHedge,
     ceShort |-> ceShort, peShort |-> peShort]

NoGroup ==
    [none |-> TRUE, ceHedge |-> None, peHedge |-> None,
     ceShort |-> None, peShort |-> None]

\* len(self.positions)
NumPositions(s) == Len(s.positions)

\* None is an element of self.positions.
HasNoGroup(s) == \E i \in 1..Len(s.positions) : s.positions[i].none

\* self.positions.add(g): a set, so None is held once; every
\* StraddlePosition object is an element of its own.
AddPosition(s, g) ==
    IF g.none /\ HasNoGroup(s) THEN s
    ELSE [s EXCEPT !.positions = Append(@, g)]

\* The selection of getStraddlePosition with the hedge legs looked at too.
ShortGroupsWithHedges(s, p) ==
    {i \in 1..Len(s.positions) :
        /\ ~s.positions[i].none
        /\ p \in {s.positions[i].ceHedge, s.positions[i].peHedge,
                  s.positions[i].ceShort, s.positions[i].peShort}}

\* The groups getStraddlePosition selects for leg p: those with p as a short leg.
ShortGroups(s, p) ==
    {i \in 1..Len(s.positions) :
        /\ ~s.positions[i].none
        /\ p \in {s.positions[i].ceShort, s.positions[i].peShort}}

\* getStraddlePosition reads .ceShort of every element of self.positions:
\* it raises AttributeError when None is among them.
getStraddlePositionRaises(s) == HasNoGroup(s)

\* getStraddlePosition(p): the index of the group, 0 for None.
getStraddlePosition(s, p) ==
    IF ShortGroups(s, p) = {} THEN 0 ELSE CHOOSE i \in ShortGroups(s, p) : TRUE

\* -------------------------------------------------------------- callbacks
onEnterOk(s, p, accepted) ==
    LET s1 == [s EXCEPT !.pendingEntry = @ \ {p}]
    IN  IF getStraddlePositionRaises(s1) THEN [s1 EXCEPT !.error = TRUE]
        ELSE IF getStraddlePosition(s1, p) = 0 THEN s1
        ELSE submitExit(s1, p, "stop", accepted)

onEnterCanceled(s, p) == [s EXCEPT !.pendingEntry = @ \ {p}]

\* self.state = PLACING_ORDERS if self.state != SQUARING_OFF else self.state
PlacingUnlessSquaringOff(s) ==
    [s EXCEPT !.state = IF @ # SQUARING_OFF THEN PLACING_ORDERS ELSE @]

\* The feed keeps the last bar of every instrument it has delivered, and a
\* leg exists only if its instrument had a bar at entry: the missing-bar
\* return of exitWithMarketProtection is not taken for a leg.
exitWithMarketProtection(s, p, accepted) == submitExit(s, p, "market", accepted)

onExitCanceled(s, p, accepted) ==
    LET s1 == [s EXCEPT !.pendingCancelExit = @ \ {p}]
        s2 == PlacingUnlessSquaringOff(s1)
    IN  IF p \in s1.pendingSLToCost
        THEN IF Refused(s2, p, accepted)
             THEN submitExit(s2, p, "cost", accepted)
             ELSE [submitExit(s2, p, "cost", accepted)
                      EXCEPT !.pendingSLToCost = @ \ {p}]
        ELSE IF p \in s1.pendingExit
        THEN exitWithMarketProtection(s2, p, accepted)
        ELSE s1

\* The other short leg of group g.
OtherShort(g, p) == IF p # g.ceShort THEN g.ceShort ELSE g.peShort

onExitOk(s, p) ==
    LET s1 == [s EXCEPT !.pendingExit = @ \ {p}]
        i == getStraddlePosition(s1, p)
        otherPosition == OtherShort(s1.positions[i], p)
    IN  IF s1.state = SQUARING_OFF THEN s1
        ELSE IF getStraddlePositionRaises(s1) THEN [s1 EXCEPT !.error = TRUE]
        ELSE IF i = 0 THEN s1
        ELSE IF otherPosition = None THEN [s1 EXCEPT !.error = TRUE]
        ELSE IF exitFilled(s1, otherPosition) THEN s1
        ELSE IF exitActive(s1, otherPosition)
        THEN cancelExit([s1 EXCEPT !.state = PLACING_ORDERS,
                                   !.pendingSLToCost = @ \cup {otherPosition}],
                        otherPosition)
        ELSE s1

\* ----------------------------------------------------------- coordinators
\* closePosition with the cancel and the market-protected exit in one step.
closePositionResubmits(s, p) ==
    IF exitActive(s, p)
    THEN exitWithMarketProtection(
             cancelExit([s EXCEPT !.pendingCancelExit = @ \cup {p},
                                  !.pendingExit = @ \cup {p}], p), p, TRUE)
    ELSE exitWithMarketProtection([s EXCEPT !.pendingExit = @ \cup {p}], p, TRUE)

\* closePosition with a leg whose exit order is active left to that order.
closePositionKeepsStop(s, p) ==
    IF exitActive(s, p) THEN s
    ELSE exitWithMarketProtection([s EXCEPT !.pendingExit = @ \cup {p}], p, TRUE)

\* closePosition with a canceled leg recorded in pendingCancelExit only.
closePositionForgetsPendingExit(s, p) ==
    IF exitActive(s, p)
    THEN cancelExit([s EXCEPT !.pendingCancelExit = @ \cup {p}], p)
    ELSE exitWithMarketProtection([s EXCEPT !.pendingExit = @ \cup {p}], p, TRUE)

\* Body of the loop of closeAllPositions, for one active position.
closePosition(s, p) ==
    IF exitActive(s, p)
    THEN cancelExit([s EXCEPT !.pendingCancelExit = @ \cup {p},
                              !.pendingExit = @ \cup {p}], p)
    ELSE exitWithMarketProtection([s EXCEPT !.pendingExit = @ \cup {p}], p, TRUE)

RECURSIVE closeEach(_, _)
closeEach(s, ps) ==
    IF ps = {} THEN s
    ELSE LET p == CHOOSE q \in ps : \A r \in ps : q <= r
         IN  closeEach(closePosition(s, p), ps \ {p})

closeAllPositions(s) ==
    closeEach([s EXCEPT !.state = SQUARING_OFF], getActivePositions(s))

\* Legs the broker has not handed out yet.
FreeLegs(s) == {p \in Legs : s.entry[p] = "unborn"}

\* enterWithMarketProtection(symbol, action): None when the feed has no bar
\* for the symbol, else the Position of a newly submitted limit entry order.
enterWithMarketProtection(s, lastBar) ==
    IF ~lastBar THEN [s |-> s, position |-> None]
    ELSE LET p == CHOOSE q \in FreeLegs(s) : \A r \in FreeLegs(s) : q <= r
         IN  [s |-> [s EXCEPT !.entry[p] = "submitted"], position |-> p]

\* enterPositions(): atmStrike says whether a strike could be resolved,
\* bars which of the four symbols have a last bar.  The result is the record
\* after the call and the group returned.
enterPositions(s, atmStrike, bars) ==
    IF ~atmStrike THEN [s |-> s, group |-> NoGroup]
    ELSE LET s0 == [s EXCEPT !.state = PLACING_ORDERS]
             ceHedge == enterWithMarketProtection(s0, "ceHedge" \in bars)
             peHedge == enterWithMarketProtection(ceHedge.s, "peHedge" \in bars)
             ceShort == enterWithMarketProtection(peHedge.s, "ceShort" \in bars)
             peShort == enterWithMarketProtection(ceShort.s, "peShort" \in bars)
         IN  [s |-> [peShort.s EXCEPT !.pendingEntry =
                        @ \cup {ceHedge.position, peHedge.position,
                                ceShort.position, peShort.position}],
              group |-> StraddlePosition(ceHedge.position, peHedge.position,
                                         ceShort.position, peShort.position)]

\* onResampledBars(): the trigger is always on.  calls counts the calls of
\* enterPositions, up to CallsCap.
onResampledBars(s, atmStrike, bars) ==
    IF NumPositions(s) = maxEntries THEN s
    ELSE LET counted == [s EXCEPT !.calls = IF @ < CallsCap THEN @ + 1 ELSE @]
             r == enterPositions(counted, atmStrike, bars)
         IN  AddPosition(r.s, r.group)

\* ------------------------------------------------------------ state machine
\* handlePlacingOrders with pendingExit left out of the emptiness test.
handlePlacingOrdersIgnoresExit(s, t) ==
    IF \/ s.pendingEntry # {} \/ s.pendingSLToCost # {}
       \/ s.pendingCancelExit # {}
    THEN s
    ELSE IF ~isPendingOrdersCompleted(s) THEN s
    ELSE IF s.state = SQUARING_OFF /\ t >= exitTime
    THEN [s EXCEPT !.state = EXITED]
    ELSE IF getActivePositions(s) = {}
    THEN [s EXCEPT !.state = LIVE]
    ELSE [s EXCEPT !.state = ENTERED]

handlePlacingOrders(s, t) ==
    IF \/ s.pendingEntry # {} \/ s.pendingSLToCost # {}
       \/ s.pendingCancelExit # {} \/ s.pendingExit # {}
    THEN s
    ELSE IF ~isPendingOrdersCompleted(s) THEN s
    ELSE IF s.state = SQUARING_OFF /\ t >= exitTime
    THEN [s EXCEPT !.state = EXITED]
    ELSE IF getActivePositions(s) = {}
    THEN [s EXCEPT !.state = LIVE]
    ELSE [s EXCEPT !.state = ENTERED]

\* __reset__(): the base class's reset puts the phase back to LIVE.
reset(s) ==
    [s EXCEPT !.state = LIVE, !.pendingEntry = {}, !.pendingSLToCost = {},
              !.pendingCancelExit = {}, !.pendingExit = {},
              !.positions = <<>>, !.calls = 0]

strategyLogic(s, t) ==
    LET s1 == IF s.state \in {PLACING_ORDERS, SQUARING_OFF}
              THEN handlePlacingOrders(s, t) ELSE s
    IN  IF t >= marketEndTime
        THEN IF Cardinality(getActivePositions(s1))
                  + Cardinality(getClosedPositions(s1)) > 0
             THEN reset(s1) ELSE s1
        ELSE IF t >= exitTime
        THEN IF s1.state = ENTERED THEN closeAllPositions(s1) ELSE s1
        ELSE s1

\* ------------------------------------------------------- prices and times
\* self.tickSize = 0.05.  Prices are whole numbers of a unit of 0.0005, the
\* hundredth of a tick, so that a price raised or lowered by a whole
\* percentage of a whole number of ticks is a whole number of units.
tickSize == 100

\* Order.Action
BUY == "BUY"
SELL == "SELL"

\* The tick multiples k, up to 120, for which the remainder of the double
\* k * 0.05 by the double 0.05 is 0.0.  The double 0.05 lies above 1/20: for
\* every other k the remainder is just under 0.05
\* (100.0 % 0.05 = 0.04999999999999445).
KeptMultiples ==
    {1, 2, 4, 8, 11, 16, 22, 27, 32, 44, 49, 54, 59, 64, 83, 88, 93, 98, 103,
     108, 113, 118}

\* price - (price % self.tickSize) on doubles.  A price between two tick
\* multiples loses its remainder.  For a price that is a whole number of
\* ticks, justUnder says that the double remainder came out just under a
\* tick instead of 0.0: the result is then one tick below the price.
getRoundedOffPriceByTickSize(price, justUnder) ==
    IF price % tickSize # 0 THEN price - (price % tickSize)
    ELSE IF justUnder /\ price > 0 THEN price - tickSize
    ELSE price

\* The limit price of enterWithMarketProtection with BUY and SELL exchanged.
enterLimitPriceSwapped(close, pct, action, justUnder) ==
    IF action = BUY
    THEN getRoundedOffPriceByTickSize(close * (100 - pct), justUnder)
    ELSE getRoundedOffPriceByTickSize(close * (100 + pct), justUnder)

\* The limit price enterWithMarketProtection computes from the last close
\* (in ticks) and the protection percentage pct: close * (1 + pct / 100.0)
\* for a BUY, close * (1 - pct / 100.0) for a SELL, rounded off.
enterLimitPrice(close, pct, action, justUnder) ==
    IF action = BUY
    THEN getRoundedOffPriceByTickSize(close * (100 + pct), justUnder)
    ELSE getRoundedOffPriceByTickSize(close * (100 - pct), justUnder)

\* onExitCanceled: entryPrice = entryPrice - (entryPrice % 0.05), the
\* trigger of the stop at cost, for an entry price of entryPrice ticks.
entryPriceAtCost(entryPrice) ==
    getRoundedOffPriceByTickSize(entryPrice * tickSize,
                                 entryPrice \notin KeptMultiples)

\* datetime.time(hour, minute), in minutes since midnight.
Time(hour, minute) == hour * 60 + minute

\* self.stopLosses, in the order of insertion: <<time, percentage>>.
stopLosses ==
    <<
       <<Time(9, 15), 40>>,
       <<Time(9, 30), 40>>,
       <<Time(9, 45), 40>>,
       <<Time(10, 0), 40>>,
       <<Time(10, 15), 40>>,
       <<Time(10, 30), 45>>,
       <<Time(10, 45), 50>>,
       <<Time(11, 0), 50>>,
       <<Time(11, 15), 50>>,
       <<Time(11, 30), 50>>,
       <<Time(11, 45), 50>>,
       <<Time(12, 0), 50>>,
       <<Time(12, 15), 50>>,
       <<Time(12, 30), 50>>,
       <<Time(12, 45), 50>>,
       <<Time(13, 0), 60>>,
       <<Time(13, 15), 70>>,
       <<Time(13, 30), 80>>,
       <<Time(13, 45), 90>>,
       <<Time(14, 0), 100>>,
       <<Time(14, 15), 100>>,
       <<Time(14, 30), 100>>,
       <<Time(14, 45), 100>>
    >>

\* The list of onEnterOk with the keys at the query time kept as well.
stopLossesListAtOrBefore(t) == SelectSeq(stopLosses, LAMBDA e : e[1] <= t)

\* [value for time, value in self.stopLosses.items() if time < now] (with
\* the keys kept).
stopLossesList(t) == SelectSeq(stopLosses, LAMBDA e : e[1] < t)

\* stopLossesList[-1] if stopLossesList else 20
stopLossPercentage(t) ==
    LET l == stopLossesList(t)
    IN  IF l # <<>> THEN l[Len(l)][2] ELSE 20

\* ------------------------------------------------------------------- Init
\* No computation made yet.
NoCalc ==
    [op |-> "none", time |-> 0, close |-> 0, pct |-> 0, action |-> BUY,
     out |-> 0]

Init ==
    /\ state = LIVE
    /\ pendingEntry = {}
    /\ pendingSLToCost = {}
    /\ pendingCancelExit = {}
    /\ pendingExit = {}
    /\ positions = <<>>
    /\ entry = [p \in Legs |-> "unborn"]
    /\ exit = [p \in Legs |-> "none"]
    /\ exitKind = [p \in Legs |-> "none"]
    /\ exitOrders = [p \in Legs |-> 0]
    /\ now = BeforeExit
    /\ calls = 0
    /\ error = FALSE
    /\ calc = NoCalc

\* ---------------------------------------------------------------- actions
LegTags == {"ceHedge", "peHedge", "ceShort", "peShort"}

\* Which symbols of a group have a last bar when enterPositions runs: none,
\* one short leg, both short legs, or all four.
BarChoices == {{}, {"ceShort"}, {"ceShort", "peShort"}, LegTags}

\* The driver's tick: onBars / onIdle run strategyLogic at the feed's time.
Tick ==
    /\ Becomes(strategyLogic(Cur, now))
    /\ UNCHANGED <<now, calc>>

\* A resampled bar arrives: onResampledBars.  The calls are not counted.
ResampledBar ==
    \E atmStrike \in BOOLEAN, bars \in BarChoices :
        /\ Cardinality(bars) <= Cardinality(FreeLegs(Cur))
        /\ Becomes([onResampledBars(Cur, atmStrike, bars) EXCEPT !.calls = 0])
        /\ UNCHANGED <<now, calc>>

\* A resampled bar arrives, and the call of enterPositions is counted.
CountedResampledBar ==
    \E atmStrike \in BOOLEAN, bars \in BarChoices :
        /\ Cardinality(bars) <= Cardinality(FreeLegs(Cur))
        /\ Becomes(onResampledBars(Cur, atmStrike, bars))
        /\ UNCHANGED <<now, calc>>

\* The feed's clock moves into the next period of the day.
ClockAdvances ==
    /\ now < marketEndTime
    /\ now' = now + 1
    /\ UNCHANGED <<state, pendingEntry, pendingSLToCost, pendingCancelExit,
                   pendingExit, positions, entry, exit, exitKind, exitOrders,
                   calls, error, calc>>

\* The next trading day begins.
NextDay ==
    /\ now = marketEndTime
    /\ now' = BeforeExit
    /\ UNCHANGED <<state, pendingEntry, pendingSLToCost, pendingCancelExit,
                   pendingExit, positions, entry, exit, exitKind, exitOrders,
                   calls, error, calc>>

\* The broker fills the entry order of p and delivers onEnterOk.
EnterOk(p) ==
    /\ entry[p] = "submitted"
    /\ \E accepted \in BOOLEAN :
          Becomes(onEnterOk([Cur EXCEPT !.entry[p] = "filled"], p, accepted))
    /\ UNCHANGED <<now, calc>>

\* The broker cancels the entry order of p and delivers onEnterCanceled.
EnterCanceled(p) ==
    /\ entry[p] = "submitted"
    /\ Becomes(onEnterCanceled([Cur EXCEPT !.entry[p] = "canceled"], p))
    /\ UNCHANGED <<now, calc>>

\* The broker fills the active exit order of p (a requested cancel may come
\* too late) and delivers onExitOk.
ExitOk(p) ==
    /\ exit[p] \in {"live", "canceling"}
    /\ Becomes(onExitOk([Cur EXCEPT !.exit[p] = "filled"], p))
    /\ UNCHANGED <<now, calc>>

\* The broker confirms the requested cancel of p's exit order and delivers
\* onExitCanceled.
ExitCanceled(p) ==
    /\ exit[p] = "canceling"
    /\ \E accepted \in BOOLEAN :
          Becomes(onExitCanceled([Cur EXCEPT !.exit[p] = "canceled"], p, accepted))
    /\ UNCHANGED <<now, calc>>

Next ==
    \/ Tick
    \/ ResampledBar
    \/ ClockAdvances
    \/ NextDay
    \/ \E p \in Legs : EnterOk(p)
    \/ \E p \in Legs : EnterCanceled(p)
    \/ \E p \in Legs : ExitOk(p)
    \/ \E p \in Legs : ExitCanceled(p)

Spec == Init /\ [][Next]_vars

\* The same program with the calls of enterPositions counted.
CountingNext ==
    \/ Tick
    \/ CountedResampledBar
    \/ ClockAdvances
    \/ NextDay
    \/ \E p \in Legs : EnterOk(p)
    \/ \E p \in Legs : EnterCanceled(p)
    \/ \E p \in Legs : ExitOk(p)
    \/ \E p \in Legs : ExitCanceled(p)

CountingSpec == Init /\ [][CountingNext]_vars

\* ------------------------------------------------- the price computations
\* The times of day at which an entry can fill, to the minute: from before
\* the first key of the schedule to after its last key.
Times == Time(9, 0)..Time(15, 30)

\* onEnterOk looks the stop-loss percentage up at the current time.
StopLossLookup ==
    \E t \in Times :
        /\ calc' = [NoCalc EXCEPT !.op = "stopLoss", !.time = t,
                                  !.out = stopLossPercentage(t)]
        /\ UNCHANGED <<state, pendingEntry, pendingSLToCost, pendingCancelExit,
                       pendingExit, positions, entry, exit, exitKind,
                       exitOrders, now, calls, error>>

\* enterWithMarketProtection prices an entry order from the last close.
EnterLimit ==
    \E close \in 1..MaxClose, pct \in 0..MaxPct, action \in {BUY, SELL},
       justUnder \in BOOLEAN :
        /\ calc' = [NoCalc EXCEPT !.op = "enter", !.close = close, !.pct = pct,
                                  !.action = action,
                                  !.out = enterLimitPrice(close, pct, action,
                                                          justUnder)]
        /\ UNCHANGED <<state, pendingEntry, pendingSLToCost, pendingCancelExit,
                       pendingExit, positions, entry, exit, exitKind,
                       exitOrders, now, calls, error>>

\* onExitCanceled computes the trigger of the stop at cost.
CostStop ==
    \E entryPrice \in 1..MaxClose :
        /\ calc' = [NoCalc EXCEPT !.op = "cost", !.close = entryPrice,
                                  !.out = entryPriceAtCost(entryPrice)]
        /\ UNCHANGED <<state, pendingEntry, pendingSLToCost, pendingCancelExit,
                       pendingExit, positions, entry, exit, exitKind,
                       exitOrders, now, calls, error>>

PricingNext ==
    \/ StopLossLookup
    \/ EnterLimit
    \/ CostStop

PricingSpec == Init /\ [][PricingNext]_vars

TypeOK ==
    /\ state \in Phases
    /\ pendingEntry \subseteq Legs \cup {None}
    /\ pendingSLToCost \subseteq Legs
    /\ pendingCancelExit \subseteq Legs
    /\ pendingExit \subseteq Legs
    /\ entry \in [Legs -> {"unborn", "submitted", "filled", "canceled"}]
    /\ exit \in [Legs -> {"none", "live", "canceling", "filled", "canceled"}]
    /\ now \in BeforeExit..marketEndTime
    /\ calls \in 0..CallsCap
    /\ error \in BOOLEAN
    /\ calc.op \in {"none", "stopLoss", "enter", "cost"}

\* ------------------------------------------------------------------ claims
\* All four pending sets are empty.
AllSettled ==
    /\ pendingEntry = {}
    /\ pendingSLToCost = {}
    /\ pendingCancelExit = {}
    /\ pendingExit = {}

\* The step is the session-boundary reset of strategyLogic.
ResetStep ==
    /\ Tick
    /\ now >= marketEndTime
    /\ getActivePositions(Cur) \cup getClosedPositions(Cur) # {}

\* C1: within a session, every step that takes the phase out of
\* PLACING_ORDERS or SQUARING_OFF to another phase starts from a state in
\* which the four pending sets are all empty.
C1_PhaseLeavesOnlyWhenSettled ==
    [][(/\ state \in {PLACING_ORDERS, SQUARING_OFF}
        /\ state' # state
        /\ ~ResetStep) => AllSettled]_vars

\* The weaker reading: the phase moves from PLACING_ORDERS or SQUARING_OFF to
\* one of LIVE, ENTERED, EXITED only from a state with the four sets empty
\* (a move from SQUARING_OFF to PLACING_ORDERS is not looked at).
PhaseLeavesBusyPairOnlyWhenSettled ==
    [][(/\ state \in {PLACING_ORDERS, SQUARING_OFF}
        /\ state' \notin {PLACING_ORDERS, SQUARING_OFF}
        /\ ~ResetStep) => AllSettled]_vars

\* C2: no leg is in more than one of pendingEntry, pendingSLToCost and
\* pendingCancelExit.
C2_AtMostOneOfThree ==
    \A p \in Legs :
        /\ ~(p \in pendingEntry /\ p \in pendingSLToCost)
        /\ ~(p \in pendingEntry /\ p \in pendingCancelExit)
        /\ ~(p \in pendingSLToCost /\ p \in pendingCancelExit)

\* What a duplicate delivery must leave alone: the phase, the four pending
\* sets, the orders submitted and the cancels requested.
Observed(s) ==
    <<s.state, s.pendingEntry, s.pendingSLToCost, s.pendingCancelExit,
      s.pendingExit, s.exitOrders, s.exit, s.entry>>

\* C3: each of the four callbacks, delivered a second time right after its
\* delivery for the same leg, changes neither the phase, nor a pending set,
\* nor the orders at the broker.
C3_CallbacksIdempotent ==
    \A p \in Legs : \A accepted \in BOOLEAN :
        /\ entry[p] = "submitted" =>
              LET once == onEnterOk([Cur EXCEPT !.entry[p] = "filled"], p, TRUE)
                  gone == onEnterCanceled([Cur EXCEPT !.entry[p] = "canceled"], p)
              IN  /\ Observed(onEnterOk(once, p, accepted)) = Observed(once)
                  /\ Observed(onEnterCanceled(gone, p)) = Observed(gone)
        /\ exit[p] \in {"live", "canceling"} =>
              LET once == onExitOk([Cur EXCEPT !.exit[p] = "filled"], p)
              IN  Observed(onExitOk(once, p)) = Observed(once)
        /\ exit[p] = "canceling" =>
              LET once == onExitCanceled([Cur EXCEPT !.exit[p] = "canceled"], p, TRUE)
              IN  Observed(onExitCanceled(once, p, accepted)) = Observed(once)

\* C4: closeAllPositions leads every leg it found active to its exit: a leg
\* whose protective order it canceled (the leg is in pendingCancelExit and in
\* pendingExit) has that order replaced by a market-protected exit when the
\* broker confirms the cancel, and does not wait in pendingExit behind any
\* other order.
C4_UnwindReplacesStopByMarketExit ==
    [][\A p \in Legs :
          (ExitCanceled(p) /\ p \in pendingCancelExit /\ p \in pendingExit) =>
              (exit'[p] = "live" /\ exitKind'[p] = "market")]_vars

\* The short leg paired with p in a registered group (None when p is no
\* short leg of a group, or the paired leg was skipped).
Paired(p) ==
    IF \E i \in 1..Len(positions) :
           ~positions[i].none /\ p \in {positions[i].ceShort, positions[i].peShort}
    THEN LET i == CHOOSE j \in 1..Len(positions) :
                     ~positions[j].none
                     /\ p \in {positions[j].ceShort, positions[j].peShort}
         IN  IF positions[i].ceShort = p THEN positions[i].peShort
             ELSE positions[i].ceShort
    ELSE None

\* The record after the broker has filled p's exit order and onExitOk ran.
AfterExitOk(p) == onExitOk([Cur EXCEPT !.exit[p] = "filled"], p)

\* C5: onExitOk for a short leg outside SQUARING_OFF: if the paired short
\* leg's exit order is still active, that order is canceled, the paired leg
\* joins pendingSLToCost and the phase becomes PLACING_ORDERS; if the paired
\* leg's exit has filled, no order is canceled and pendingSLToCost and the
\* phase stay as they are.
C5_ExitOkTightensPairedLeg ==
    \A p \in Legs :
        (/\ exit[p] \in {"live", "canceling"}
         /\ state # SQUARING_OFF
         /\ Paired(p) # None) =>
            LET q == Paired(p)
                r == AfterExitOk(p)
            IN  /\ exit[q] \in {"live", "canceling"} =>
                      /\ r.exit[q] = "canceling"
                      /\ q \in r.pendingSLToCost
                      /\ r.state = PLACING_ORDERS
                /\ exit[q] = "filled" =>
                      /\ r.exit = [exit EXCEPT ![p] = "filled"]
                      /\ r.pendingSLToCost = pendingSLToCost
                      /\ r.state = state

\* C6: while legs that closeAllPositions put up for exit are still waiting
\* in pendingExit, onExitOk for a leg only takes that leg out of pendingExit:
\* the phase, pendingSLToCost and every other leg's exit order stay as they
\* are.
C6_NoCrossLegActionDuringUnwind ==
    \A p \in Legs :
        (exit[p] \in {"live", "canceling"} /\ p \in pendingExit) =>
            LET r == AfterExitOk(p)
            IN  /\ r.state = state
                /\ r.pendingSLToCost = pendingSLToCost
                /\ r.pendingExit = pendingExit \ {p}
                /\ \A q \in Legs \ {p} : r.exit[q] = exit[q]

\* C7: a step submits a new exit order for a leg only if the leg has no
\* active exit order before the step, or the step is the delivery of
\* onExitCanceled for the canceled order of that leg.
C7_CancelConfirmedBeforeReplacement ==
    [][\A p \in Legs :
          exitOrders'[p] > exitOrders[p] =>
              \/ exit[p] \in {"none", "canceled"}
              \/ (exit[p] = "canceling" /\ ExitCanceled(p))]_vars

\* A replacement exit order (stop at cost, or market-protected exit after a
\* canceled stop) is live.
C7_Witness ==
    \E p \in Legs :
        /\ exitOrders[p] >= 2
        /\ exit[p] = "live"
        /\ exitKind[p] \in {"cost", "market"}

\* The phase handlePlacingOrders must choose when the tracker has drained.
RecomputedPhase(t) ==
    IF state = SQUARING_OFF /\ t >= exitTime THEN EXITED
    ELSE IF \A p \in Legs : ~(entry[p] = "filled" /\ exit[p] # "filled") THEN LIVE
    ELSE ENTERED

\* C8: handlePlacingOrders, run in PLACING_ORDERS or SQUARING_OFF, leaves
\* the phase alone while a pending set is non-empty; with the four sets
\* empty and the broker's orders completed it sets EXITED (SQUARING_OFF at
\* or after the exit deadline), else LIVE (no active leg), else ENTERED.
C8_PhaseTransitionRule ==
    state \in {PLACING_ORDERS, SQUARING_OFF} =>
        LET r == handlePlacingOrders(Cur, now)
        IN  /\ ~AllSettled => r = Cur
            /\ (AllSettled /\ isPendingOrdersCompleted(Cur)) =>
                  r = [Cur EXCEPT !.state = RecomputedPhase(now)]

\* The tick has recomputed the phase: EXITED is written nowhere else.
C8_Witness == state = EXITED /\ AllSettled

\* C9: once the phase is EXITED, it stays EXITED until the session reset.
C9_ExitedIsTerminal ==
    [][(state = EXITED /\ ~ResetStep) => state' = EXITED]_vars

\* C10: enterPositions is called at most maxEntries times in a session.
C10_AtMostMaxEntriesCalls == calls <= maxEntries

\* C11: every element of pendingEntry is a leg whose entry order is with the
\* broker (submitted, neither filled nor canceled yet): enterPositions puts
\* no placeholder for a skipped leg into the set.
C11_PendingEntryHoldsSubmittedLegs ==
    \A x \in pendingEntry : x \in Legs /\ entry[x] = "submitted"

\* The same for real legs only: a leg in pendingEntry has its entry order
\* with the broker.
PendingEntryLegsAreSubmitted ==
    \A x \in pendingEntry \cap Legs : entry[x] = "submitted"

Settled(s) ==
    /\ s.pendingEntry = {}
    /\ s.pendingSLToCost = {}
    /\ s.pendingCancelExit = {}
    /\ s.pendingExit = {}

\* C13: a driver tick at or after the market end time leaves the phase at
\* LIVE and the four pending sets empty, whatever they held before.
C13_SessionBoundaryResets ==
    now >= marketEndTime =>
        LET r == strategyLogic(Cur, now)
        IN  r.state = LIVE /\ Settled(r)

\* The reset as the code gates it: a tick at or after the market end time
\* with at least one active or closed position resets the phase and the sets.
ResetWhenPositionsExist ==
    (/\ now >= marketEndTime
     /\ getActivePositions(Cur) \cup getClosedPositions(Cur) # {}) =>
        LET r == strategyLogic(Cur, now)
        IN  r.state = LIVE /\ Settled(r)

\* C14: no callback raises.
C14_NoCallbackRaises == error = FALSE

\* p is the ceShort or the peShort of a registered group.
IsShortLeg(p) ==
    \E i \in 1..Len(positions) :
        ~positions[i].none /\ (positions[i].ceShort = p \/ positions[i].peShort = p)

\* C16: onEnterOk takes the leg out of pendingEntry; it submits an exit
\* order only for a short leg of a registered group, and that order is the
\* protective stop; for any other leg the phase, the sets, the groups and
\* the orders are as before, the pendingEntry removal apart.  onEnterCanceled
\* only takes the leg out of pendingEntry.  (Whether the callback raises is
\* not looked at here.)
C16_StopOnlyForShortLegs ==
    \A p \in Legs :
        entry[p] = "submitted" =>
            LET filled == [Cur EXCEPT !.entry[p] = "filled"]
                gone == [Cur EXCEPT !.entry[p] = "canceled"]
            IN  /\ \A accepted \in BOOLEAN :
                      LET r == onEnterOk(filled, p, accepted)
                      IN  /\ r.pendingEntry = pendingEntry \ {p}
                          /\ r.exitOrders[p] > exitOrders[p] =>
                                IsShortLeg(p) /\ r.exitKind[p] = "stop"
                          /\ \A q \in Legs \ {p} : r.exitOrders[q] = exitOrders[q]
                          /\ ~IsShortLeg(p) =>
                                [r EXCEPT !.error = error] =
                                    [filled EXCEPT !.pendingEntry = @ \ {p}]
                /\ onEnterCanceled(gone, p) = [gone EXCEPT !.pendingEntry = @ \ {p}]

\* Both kinds of leg have been confirmed: a short leg of a group carries its
\* protective stop, a hedge leg of a group carries no exit order.
C16_Witness ==
    \E i \in 1..Len(positions) :
        /\ ~positions[i].none
        /\ positions[i].ceShort # None /\ positions[i].ceHedge # None
        /\ entry[positions[i].ceShort] = "filled"
        /\ exit[positions[i].ceShort] = "live"
        /\ exitKind[positions[i].ceShort] = "stop"
        /\ entry[positions[i].ceHedge] = "filled"
        /\ exit[positions[i].ceHedge] = "none"

\* What onExitCanceled does for leg p, whose cancel the broker has confirmed
\* and which is in pendingSLToCost: r is the record after the callback.
ConvertedToCost(p, r) ==
    /\ r.exit[p] = "live"
    /\ r.exitKind[p] = "cost"
    /\ r.exitOrders[p] = exitOrders[p] + 1
    /\ p \notin r.pendingSLToCost
    /\ p \notin r.pendingCancelExit
    /\ r.state = IF state = SQUARING_OFF THEN SQUARING_OFF ELSE PLACING_ORDERS
    /\ r.pendingExit = pendingExit
    /\ r.pendingEntry = pendingEntry

\* The branch of onExitCanceled for a leg in pendingSLToCost, prices apart:
\* one new exit order, the stop at cost and no market-protected exit; the
\* leg leaves pendingSLToCost and pendingCancelExit; the phase becomes
\* PLACING_ORDERS unless it is SQUARING_OFF.
StopToCostBranch ==
    \A p \in Legs :
        (exit[p] = "canceling" /\ p \in pendingSLToCost) =>
            \A accepted \in BOOLEAN :
                ConvertedToCost(p, onExitCanceled([Cur EXCEPT !.exit[p] = "canceled"],
                                                  p, accepted))

\* C15: onExitCanceled for a leg in pendingSLToCost submits a new stop-limit
\* exit whose trigger is the entry price floored to the tick size (the entry
\* price itself when it is a whole number of ticks), takes the leg out of
\* pendingSLToCost and pendingCancelExit, sets the phase to PLACING_ORDERS
\* unless it is SQUARING_OFF, and submits no market-protected exit, also
\* when the leg is in pendingExit.
C15_ExitCanceledStopAtCost ==
    \A p \in Legs :
        (exit[p] = "canceling" /\ p \in pendingSLToCost) =>
            /\ \A accepted \in BOOLEAN :
                  ConvertedToCost(p, onExitCanceled([Cur EXCEPT !.exit[p] = "canceled"],
                                                    p, accepted))
            /\ \A entryPrice \in 1..MaxClose :
                  entryPriceAtCost(entryPrice) = entryPrice * tickSize

\* C17: the stop-loss lookup returns the percentage of the greatest key of
\* the schedule strictly earlier than the query time, and 20 when no key is
\* strictly earlier; a key equal to the query time is not selected.
C17_LookupStrictlyEarlierKey ==
    calc.op = "stopLoss" =>
        LET earlier == {i \in 1..Len(stopLosses) : stopLosses[i][1] < calc.time}
        IN  IF earlier = {} THEN calc.out = 20
            ELSE \E i \in earlier :
                    /\ \A j \in earlier : stopLosses[j][1] <= stopLosses[i][1]
                    /\ calc.out = stopLosses[i][2]

\* The lookup at 10:30, a key whose percentage (45) differs from that of the
\* key before it (40).
C17_Witness ==
    calc.op = "stopLoss" /\ calc.time = Time(10, 30) /\ calc.out = 40

\* C18: for the reference price and the direction of a priced entry, every
\* larger protection percentage gives a strictly worse limit price after
\* rounding: strictly higher for a BUY, strictly lower for a SELL.
C18_StrictlyMonotonic ==
    calc.op = "enter" =>
        \A pct \in 0..MaxPct : \A justUnder \in BOOLEAN :
            pct > calc.pct =>
                IF calc.action = BUY
                THEN enterLimitPrice(calc.close, pct, BUY, justUnder) > calc.out
                ELSE enterLimitPrice(calc.close, pct, SELL, justUnder) < calc.out

\* C18 as amended: every larger protection percentage gives a limit price
\* that is worse or the same after rounding: never lower for a BUY, never
\* higher for a SELL.
C18_Monotonic ==
    calc.op = "enter" =>
        \A pct \in 0..MaxPct : \A justUnder \in BOOLEAN :
            pct > calc.pct =>
                IF calc.action = BUY
                THEN enterLimitPrice(calc.close, pct, BUY, justUnder) >= calc.out
                ELSE enterLimitPrice(calc.close, pct, SELL, justUnder) <= calc.out

\* A BUY has been priced and a larger percentage gives a higher price, while
\* the next percentage up gives the same price.
C18_Witness ==
    /\ calc.op = "enter"
    /\ calc.action = BUY
    /\ calc.pct + 1 < MaxPct
    /\ enterLimitPrice(calc.close, calc.pct + 1, BUY, FALSE) = calc.out
    /\ enterLimitPrice(calc.close, MaxPct, BUY, FALSE) > calc.out

\* C19: when the broker resolves the stop of a leg that waits in
\* pendingSLToCost, by confirming the cancel (onExitCanceled) or by filling
\* the stop before the cancel takes effect (onExitOk), the leg is out of
\* pendingSLToCost after the callback, so that the phase can leave
\* PLACING_ORDERS.
C19_StopToCostSettles ==
    [][\A p \in Legs :
          (p \in pendingSLToCost /\ (ExitCanceled(p) \/ ExitOk(p))) =>
              p \notin pendingSLToCost']_vars

\* A leg whose stop filled while it waited in pendingSLToCost stays there,
\* and the phase stays PLACING_ORDERS or SQUARING_OFF, until the session reset.
FilledStopStaysPending ==
    [][\A p \in Legs :
          (p \in pendingSLToCost /\ exit[p] = "filled" /\ ~ResetStep) =>
              /\ p \in pendingSLToCost'
              /\ state' \in {PLACING_ORDERS, SQUARING_OFF}]_vars

\* The confirmed cancel alone settles the conversion.
CancelConfirmedSettles ==
    [][\A p \in Legs :
          (p \in pendingSLToCost /\ ExitCanceled(p)) =>
              p \notin pendingSLToCost']_vars

\* C20: while the phase is EXITED no leg is active and the four pending
\* sets are empty.
C20_ExitedMeansFlat ==
    state = EXITED =>
        /\ \A p \in Legs : ~(entry[p] = "filled" /\ exit[p] # "filled")
        /\ \A p \in Legs : entry[p] # "submitted"
        /\ AllSettled

\* The unwind has run to its end: the phase is EXITED and a leg that was
\* active has been exited by its market-protected exit.
C20_Witness ==
    /\ state = EXITED
    /\ \E p \in Legs :
          entry[p] = "filled" /\ exit[p] = "filled" /\ exitKind[p] = "market"
====
